---- MODULE Spec2Model ----
(***************************************************************************)
(* Time-bounded random sampling of partitions / weak compositions and the  *)
(* per-study all-or-nothing variance builder of TL_functions.py.           *)
(*                                                                         *)
(* A behaviour of Spec is one call of sample_var or TL_analysis on one      *)
(* study of the data table; a behaviour of SpecSampler is one call of      *)
(* rand_compositions.  The process-wide SIGALRM timer is the variable      *)
(* alarm; its handler (Timeout) may run between any two steps while it is  *)
(* armed.                                                                  *)
(***************************************************************************)
EXTENDS Integers, Sequences, FiniteSets, TLC

\* Largest sample_size a call is given.
MaxSample == 2

\* Largest q, largest n and largest batch size given to rand_compositions
\* when it is exercised on its own.
MaxQ == 4
MaxN == 3
MaxBatch == 3

\* Largest number of successive sample_var calls of one run.
MaxCalls == 2

\* Default t_limit of sample_var and TL_analysis.
DefaultTLimit == 7200

\* The table read by get_QN_mean_var_data: rows of study, Q, N, mean, var,
\* in file order, the studies interleaved.  Study "D" has no row.
Data ==
    << <<"A", 4, 3, 1, 2>>,
       <<"B", 2, 3, 0, 1>>,
       <<"A", 3, 2, 1, 1>>,
       <<"C", 3, 3, 1, 0>>,
       <<"A", 3, 3, 1, 3>>,
       <<"C", 3, 0, 0, 0>>,
       <<"B", 3, 1, 3, 0>> >>

Studies == {"A", "B", "C", "D"}
SampleSizes == 1..MaxSample
TLimits == {0, DefaultTLimit}
Analyses == {"partition", "composition"}
Routines == {"sample_var", "TL_analysis"}

VARIABLES
    ncalls,       \* number of calls of the entry point begun so far
    routine,      \* entry point: sample_var, TL_analysis or rand_compositions
    study,        \* argument study
    sample_size,  \* argument sample_size
    t_limit,      \* argument t_limit
    analysis,     \* argument analysis
    data_study,   \* the study's records, in table order
    i,            \* position of the for-loop over data_study
    var_parts,    \* rows accumulated for the study
    QN_var,       \* variances collected by the running get_var_for_Q_N
    Niter,        \* number of iterations of the collector loop begun
    q,            \* argument q of the running collector / sampler call
    n,            \* argument n of the running collector / sampler call
    rc_size,      \* argument sample_size of the running rand_compositions
    comps,        \* the list comps of the running rand_compositions
    QN_parts,     \* batch returned by the sampler for the current iteration
    cuts,         \* result of the last np.random.randint call
    alarm,        \* TRUE iff the process-wide alarm is armed
    pc,           \* position of the single thread of control
    exc,          \* exception that left the call, "none" if none
    out,          \* output files: file name -> sequence of rows
    calls,        \* history: positions of data_study given to the collector
    lens,         \* history: length of the list each collector call returned
    draws,        \* history: draws whose variance the running call appended
    fired         \* history: where the alarm fired during the running
                  \* collector call, "no" if it has not

vars == << ncalls, routine, study, sample_size, t_limit, analysis, data_study, i,
           var_parts, QN_var, Niter, q, n, rc_size, comps, QN_parts, cuts,
           alarm, pc, exc, out, calls, lens, draws, fired >>

inputs == << ncalls, routine, study, sample_size, t_limit, analysis >>

----------------------------------------------------------------------------
\* Sequences of integers

RECURSIVE Sum(_)
Sum(s) == IF s = <<>> THEN 0 ELSE Head(s) + Sum(Tail(s))

RECURSIVE Insert(_, _)
Insert(x, s) ==
    IF s = <<>> THEN <<x>>
    ELSE IF x <= Head(s) THEN <<x>> \o s
    ELSE <<Head(s)>> \o Insert(x, Tail(s))

\* sorted(...) and list.sort(): ascending order
RECURSIVE sorted(_)
sorted(s) == IF s = <<>> THEN <<>> ELSE Insert(Head(s), sorted(Tail(s)))

\* list.reverse()
reverse(s) == [k \in 1..Len(s) |-> s[Len(s) + 1 - k]]

\* Variant: the squares are summed without subtracting the mean.
varRawMoment(x) ==
    LET len == Len(x)
    IN  << Sum([k \in 1..len |-> (len * x[k]) * (len * x[k])]),
           len * len * (len - 1) >>

\* np.var(x, ddof = 1): sum((x - mean)^2) / (len - 1), kept as the exact
\* fraction <<numerator, denominator>> = <<sum (len*x - sum)^2, len^2*(len-1)>>.
\* A denominator of 0 (len = 1) is numpy's nan.
var(x) ==
    LET len == Len(x)
        s == Sum(x)
    IN  << Sum([k \in 1..len |-> (len * x[k] - s) * (len * x[k] - s)]),
           len * len * (len - 1) >>

----------------------------------------------------------------------------
\* Samplers

\* Variant: the range shifted by one, randint(1, q + 1, n - 1).
randintFrom1(Q, N) == [1..(N - 1) -> 1..Q]

\* Values np.random.randint(0, q, n - 1) can return.
randint(Q, N) == [1..(N - 1) -> 0..(Q - 1)]

\* Variant: a total smaller than the number of parts is refused as well.
randintRaisesSmallQ(Q, N) == N - 1 < 0 \/ Q <= 0 \/ Q < N

\* np.random.randint raises ValueError: negative size, or empty range.
randintRaises(Q, N) == N - 1 < 0 \/ Q <= 0

\* Variant: the cut points are used in the order drawn, without sorted().
RandomComposition_unsorted(Q, N, r) ==
    [k \in 1..(Len(r) + 1) |-> (r \o <<Q>>)[k] - (<<0>> \o r)[k]]

\* RandomComposition_weak(q, n) given the value r drawn by randint.
RandomComposition_weak(Q, N, r) ==
    LET indices == sorted(r)
    IN  [k \in 1..(Len(indices) + 1) |->
            (indices \o <<Q>>)[k] - (<<0>> \o indices)[k]]

\* The length/sum test of rand_compositions that leads to sys.exit().
Inconsistent(Q, N, comp) == Len(comp) # N \/ Sum(comp) # Q

\* comp.sort(); comp.reverse()
Descending(comp) == reverse(sorted(comp))

\* set(tuple(x) for x in comps)
AsSet(cs) == {cs[k] : k \in DOMAIN cs}

\* [list(x) for x in set]: the lists a set can be turned into (the iteration
\* order of a set is arbitrary).
AsLists(S) ==
    {l \in [1..Cardinality(S) -> S] :
        \A a, b \in 1..Cardinality(S) : a # b => l[a] # l[b]}

\* parts.rand_partitions(q, n, 1, ...): one partition of q into n positive
\* parts, in descending order.
Partitions(Q, N) ==
    {p \in [1..N -> 1..Q] :
        Sum(p) = Q /\ \A k \in 1..(N - 1) : p[k] >= p[k + 1]}

InvalidCombination(Q, N) == Q < N \/ N < 1

----------------------------------------------------------------------------
\* Files

FileName(r, a) ==
    IF r = "sample_var"
    THEN "taylor_QN_var_predicted_" \o a \o "_full.txt"
    ELSE "taylor_QN_var_predicted_" \o a \o ".txt"

Files == {FileName(r, a) : r \in Routines, a \in Analyses}

\* np.mean of a list of variances sharing one denominator
mean(vs) ==
    << Sum([k \in 1..Len(vs) |-> vs[k][1]]), vs[1][2] * Len(vs) >>

\* np.median of a list of variances sharing one denominator
median(vs) ==
    LET nums == sorted([k \in 1..Len(vs) |-> vs[k][1]])
        len == Len(vs)
    IN  IF len % 2 = 1
        THEN << 2 * nums[(len + 1) \div 2], 2 * vs[1][2] >>
        ELSE << nums[len \div 2] + nums[len \div 2 + 1], 2 * vs[1][2] >>

----------------------------------------------------------------------------
\* The state machine

\* Control is inside the with-block of get_var_for_Q_N.
InCollector ==
    /\ routine # "rand_compositions"
    /\ pc \in {"for_Niter", "rc_while", "append"}

Idle ==
    /\ ncalls = 1
    /\ data_study = <<>>
    /\ i = 1
    /\ var_parts = <<>>
    /\ QN_var = <<>>
    /\ Niter = 0
    /\ comps = <<>>
    /\ QN_parts = <<>>
    /\ cuts = <<>>
    /\ alarm = FALSE
    /\ exc = "none"
    /\ out = [f \in Files |-> <<>>]
    /\ calls = <<>>
    /\ lens = <<>>
    /\ draws = <<>>
    /\ fired = "no"

\* A call of sample_var or TL_analysis is about to start.
Init ==
    /\ routine \in Routines
    /\ study \in Studies
    /\ sample_size \in SampleSizes
    /\ t_limit \in TLimits
    /\ analysis \in Analyses
    /\ q = 0
    /\ n = 0
    /\ rc_size = 0
    /\ pc = "start"
    /\ Idle

\* data[data['study'] == study]
OfStudy(d, s) == SelectSeq(d, LAMBDA rec : rec[1] = s)

\* Variant: only combos with N < 2 are removed.
NAtLeast2(d) == SelectSeq(d, LAMBDA rec : rec[3] >= 2)

\* data_study[data_study['N'] > 2]
NAbove2(d) == SelectSeq(d, LAMBDA rec : rec[3] > 2)

\* The records the routine iterates over.
Selected(r, d, s) ==
    IF r = "sample_var" THEN OfStudy(d, s) ELSE NAbove2(OfStudy(d, s))

\* Entry of sample_var / TL_analysis up to the for-loop.
Begin ==
    /\ pc = "start"
    /\ data_study' = Selected(routine, Data, study)
    /\ var_parts' = <<>>
    /\ i' = 1
    /\ pc' = "for_record"
    /\ UNCHANGED << inputs, QN_var, Niter, q, n, rc_size, comps, QN_parts,
                    cuts, alarm, exc, out, calls, lens, draws, fired >>

\* signal.alarm(seconds): a positive value arms the timer, 0 cancels it.
Armed(seconds) == seconds > 0

\* Variant: time_limit without its finally clause.
StillArmed == alarm

\* finally: signal.alarm(0)
Disarmed == FALSE

\* The for-loop takes the next record and calls get_var_for_Q_N, which
\* enters time_limit(t_limit) and reaches the head of its own loop.
CallCollector ==
    /\ pc = "for_record"
    /\ i <= Len(data_study)
    /\ q' = data_study[i][2]
    /\ n' = data_study[i][3]
    /\ QN_var' = <<>>
    /\ Niter' = 0
    /\ alarm' = Armed(t_limit)
    /\ pc' = "for_Niter"
    /\ calls' = Append(calls, i)
    /\ draws' = <<>>
    /\ fired' = "no"
    /\ UNCHANGED << inputs, data_study, i, var_parts, rc_size, comps,
                    QN_parts, cuts, exc, out, lens >>

\* An exception other than the timeout leaves the call.  Inside the
\* with-block the finally clause of time_limit runs; nothing catches it.
Raise(e) ==
    /\ exc' = e
    /\ alarm' = IF InCollector THEN Disarmed ELSE alarm
    /\ pc' = "raised"

\* Variant: the whole sample is requested from rand_compositions as one batch.
DrawBatch ==
    /\ pc = "for_Niter"
    /\ Niter < sample_size
    /\ Niter' = Niter + 1
    /\ IF analysis = "partition"
       THEN IF InvalidCombination(q, n)
            THEN /\ Raise("InvalidCombination")
                 /\ UNCHANGED << QN_parts, rc_size, comps >>
            ELSE /\ \E p \in Partitions(q, n) : QN_parts' = <<p>>
                 /\ pc' = "append"
                 /\ UNCHANGED << rc_size, comps, alarm, exc >>
       ELSE /\ rc_size' = sample_size
            /\ comps' = <<>>
            /\ pc' = "rc_while"
            /\ UNCHANGED << QN_parts, alarm, exc >>
    /\ UNCHANGED << inputs, data_study, i, var_parts, QN_var, q, n, cuts,
                    out, calls, lens, draws, fired >>

\* One iteration of the collector loop up to the sampler call: rand_partitions
\* returns at once, rand_compositions(q, n, 1, True) starts its while-loop.
Draw ==
    /\ pc = "for_Niter"
    /\ Niter < sample_size
    /\ Niter' = Niter + 1
    /\ IF analysis = "partition"
       THEN IF InvalidCombination(q, n)
            THEN /\ Raise("InvalidCombination")
                 /\ UNCHANGED << QN_parts, rc_size, comps >>
            ELSE /\ \E p \in Partitions(q, n) : QN_parts' = <<p>>
                 /\ pc' = "append"
                 /\ UNCHANGED << rc_size, comps, alarm, exc >>
       ELSE /\ rc_size' = 1
            /\ comps' = <<>>
            /\ pc' = "rc_while"
            /\ UNCHANGED << QN_parts, alarm, exc >>
    /\ UNCHANGED << inputs, data_study, i, var_parts, QN_var, q, n, cuts,
                    out, calls, lens, draws, fired >>

\* Variant: a draw with a repeated cut point is dropped and drawn again.
RcIterRedraw ==
    /\ pc = "rc_while"
    /\ Len(comps) < rc_size
    /\ IF randintRaises(q, n)
       THEN /\ Raise("ValueError")
            /\ UNCHANGED << cuts, comps >>
       ELSE \E r \in randint(q, n) :
               \E comp \in {RandomComposition_weak(q, n, r)} :
                   /\ cuts' = r
                   /\ IF \E a, b \in DOMAIN r : a # b /\ r[a] = r[b]
                      THEN UNCHANGED << comps, pc, alarm, exc >>
                      ELSE /\ \E asc \in {sorted(comp)} :
                                  comps' = Append(comps, reverse(asc))
                           /\ UNCHANGED << pc, alarm, exc >>
    /\ UNCHANGED << inputs, data_study, i, var_parts, QN_var, Niter, q, n,
                    rc_size, QN_parts, out, calls, lens, draws, fired >>

\* One iteration of the while-loop of rand_compositions: comp is the value
\* of RandomComposition_weak(q, n), asc the list after comp.sort(), and the
\* list appended is the one after comp.reverse(), i.e. Descending(comp).
RcIter ==
    /\ pc = "rc_while"
    /\ Len(comps) < rc_size
    /\ IF randintRaises(q, n)
       THEN /\ Raise("ValueError")
            /\ UNCHANGED << cuts, comps >>
       ELSE \E r \in randint(q, n) :
               \E comp \in {RandomComposition_weak(q, n, r)} :
                   /\ cuts' = r
                   /\ IF Inconsistent(q, n, comp)
                      THEN /\ Raise("SystemExit")
                           /\ UNCHANGED comps
                      ELSE /\ \E asc \in {sorted(comp)} :
                                  comps' = Append(comps, reverse(asc))
                           /\ UNCHANGED << pc, alarm, exc >>
    /\ UNCHANGED << inputs, data_study, i, var_parts, QN_var, Niter, q, n,
                    rc_size, QN_parts, out, calls, lens, draws, fired >>

\* Variant: comps is returned as it is, without going through a set.
RcReturnNoDedup ==
    /\ pc = "rc_while"
    /\ Len(comps) >= rc_size
    /\ QN_parts' = comps
    /\ pc' = IF routine = "rand_compositions" THEN "rc_done" ELSE "append"
    /\ UNCHANGED << inputs, data_study, i, var_parts, QN_var, Niter, q, n,
                    rc_size, comps, cuts, alarm, exc, out, calls, lens,
                    draws, fired >>

\* The while-loop of rand_compositions has ended: deduplicate and return.
RcReturn ==
    /\ pc = "rc_while"
    /\ Len(comps) >= rc_size
    /\ \E l \in AsLists(AsSet(comps)) : QN_parts' = l
    /\ pc' = IF routine = "rand_compositions" THEN "rc_done" ELSE "append"
    /\ UNCHANGED << inputs, data_study, i, var_parts, QN_var, Niter, q, n,
                    rc_size, comps, cuts, alarm, exc, out, calls, lens,
                    draws, fired >>

\* QN_var.append(np.var(QN_parts[0], ddof = 1))
AppendVar ==
    /\ pc = "append"
    /\ QN_var' = Append(QN_var, var(QN_parts[1]))
    /\ draws' = Append(draws, QN_parts[1])
    /\ pc' = "for_Niter"
    /\ UNCHANGED << inputs, data_study, i, var_parts, Niter, q, n, rc_size,
                    comps, QN_parts, cuts, alarm, exc, out, calls, lens,
                    fired >>

\* Variant: the loop runs over range(sample_size - 1).
ReturnOffByOne ==
    /\ pc = "for_Niter"
    /\ Niter >= sample_size - 1
    /\ alarm' = Disarmed
    /\ lens' = Append(lens, Len(QN_var))
    /\ pc' = "check"
    /\ UNCHANGED << inputs, data_study, i, var_parts, QN_var, Niter, q, n,
                    rc_size, comps, QN_parts, cuts, exc, out, calls, draws,
                    fired >>

\* range(sample_size) is exhausted: return QN_var leaves the with-block and
\* the finally clause disarms the alarm.
Return ==
    /\ pc = "for_Niter"
    /\ Niter >= sample_size
    /\ alarm' = Disarmed
    /\ lens' = Append(lens, Len(QN_var))
    /\ pc' = "check"
    /\ UNCHANGED << inputs, data_study, i, var_parts, QN_var, Niter, q, n,
                    rc_size, comps, QN_parts, cuts, exc, out, calls, draws,
                    fired >>

\* Variant: get_var_for_Q_N without its except clause.
TimeoutUncaught ==
    /\ alarm
    /\ pc \notin {"done", "raised"}
    /\ alarm' = FALSE
    /\ fired' = IF InCollector THEN pc ELSE fired
    /\ exc' = "TimeoutException"
    /\ pc' = "raised"
    /\ UNCHANGED << inputs, data_study, i, var_parts, QN_var, Niter, q, n,
                    rc_size, comps, QN_parts, cuts, out, calls, draws, lens >>

\* The alarm goes off (it is one-shot) and signal_handler raises
\* TimeoutException at the current position.  Inside get_var_for_Q_N the
\* finally clause runs, the except clause catches the exception and returns
\* QN_var; elsewhere nothing catches it.
Timeout ==
    /\ alarm
    /\ pc \notin {"done", "raised"}
    /\ alarm' = FALSE
    /\ IF InCollector
       THEN /\ fired' = pc
            /\ lens' = Append(lens, Len(QN_var))
            /\ pc' = "check"
            /\ UNCHANGED exc
       ELSE /\ exc' = "TimeoutException"
            /\ pc' = "raised"
            /\ UNCHANGED << fired, lens >>
    /\ UNCHANGED << inputs, data_study, i, var_parts, QN_var, Niter, q, n,
                    rc_size, comps, QN_parts, cuts, out, calls, draws >>

\* The row kept for a combo that reached full size.
Row(r, rec, vs) == IF r = "sample_var" THEN rec \o vs ELSE vs

\* Variant: a short sample skips the combo (continue) instead of break.
CheckNoBreak ==
    /\ pc = "check"
    /\ IF Len(QN_var) = sample_size
       THEN /\ var_parts' = Append(var_parts, Row(routine, data_study[i], QN_var))
            /\ i' = i + 1
            /\ pc' = "for_record"
       ELSE /\ pc' = "for_record"
            /\ i' = i + 1
            /\ UNCHANGED var_parts
    /\ UNCHANGED << inputs, data_study, QN_var, Niter, q, n, rc_size, comps,
                    QN_parts, cuts, alarm, exc, out, calls, lens, draws,
                    fired >>

\* if len(QN_var) == sample_size: ... else: break
Check ==
    /\ pc = "check"
    /\ IF Len(QN_var) = sample_size
       THEN /\ var_parts' = Append(var_parts, Row(routine, data_study[i], QN_var))
            /\ i' = i + 1
            /\ pc' = "for_record"
       ELSE /\ pc' = "emit"
            /\ UNCHANGED << var_parts, i >>
    /\ UNCHANGED << inputs, data_study, QN_var, Niter, q, n, rc_size, comps,
                    QN_parts, cuts, alarm, exc, out, calls, lens, draws,
                    fired >>

\* The rows written when the study is complete: sample_var prints var_parts
\* (a row is the sequence of its tab-separated fields), TL_analysis writes
\* study, Q, N and summaries of each combo's variances (the two percentile
\* columns are left out).
Rows(r, s, d, vp) ==
    IF r = "sample_var" THEN vp
    ELSE [k \in 1..Len(d) |->
            << s, d[k][2], d[k][3], mean(vp[k]), median(vp[k]) >>]

\* Variant: the study is written as soon as one combo is complete.
CompleteIfAny(d, vp) == Len(vp) > 0

\* if len(data_study) == len(var_parts)
Complete(d, vp) == Len(d) = Len(vp)

\* Variant: the output file is opened with mode 'w'.
EmitTruncating ==
    /\ \/ pc = "emit"
       \/ pc = "for_record" /\ i > Len(data_study)
    /\ out' = IF Complete(data_study, var_parts)
              THEN [out EXCEPT ![FileName(routine, analysis)] =
                        Rows(routine, study, data_study, var_parts)]
              ELSE out
    /\ pc' = "done"
    /\ UNCHANGED << inputs, data_study, i, var_parts, QN_var, Niter, q, n,
                    rc_size, comps, QN_parts, cuts, alarm, exc, calls, lens,
                    draws, fired >>

\* After the for-loop (exhausted or broken): write the study or nothing.
Emit ==
    /\ \/ pc = "emit"
       \/ pc = "for_record" /\ i > Len(data_study)
    /\ out' = IF Complete(data_study, var_parts)
              THEN [out EXCEPT ![FileName(routine, analysis)] =
                        @ \o Rows(routine, study, data_study, var_parts)]
              ELSE out
    /\ pc' = "done"
    /\ UNCHANGED << inputs, data_study, i, var_parts, QN_var, Niter, q, n,
                    rc_size, comps, QN_parts, cuts, alarm, exc, calls, lens,
                    draws, fired >>

Next ==
    \/ Begin
    \/ CallCollector
    \/ Draw
    \/ RcIter
    \/ RcReturn
    \/ AppendVar
    \/ Return
    \/ Timeout
    \/ Check
    \/ Emit

Spec == Init /\ [][Next]_vars

----------------------------------------------------------------------------
\* A run of successive sample_var calls on the same output files

\* The studies of the successive calls: those of at most two combos, which
\* keeps the contents a file can have after a call few.
CallStudies == {"B", "C", "D"}

InitCalls ==
    /\ Init
    /\ routine = "sample_var"
    /\ study \in CallStudies

\* The caller, after a call has ended (or its exception was caught), calls
\* sample_var again with new arguments; the files keep their content.
NextCall ==
    /\ pc \in {"done", "raised"}
    /\ ncalls < MaxCalls
    /\ ncalls' = ncalls + 1
    /\ routine' = "sample_var"
    /\ study' \in CallStudies
    /\ sample_size' \in SampleSizes
    /\ t_limit' \in TLimits
    /\ analysis' \in Analyses
    /\ pc' = "start"
    /\ data_study' = <<>>
    /\ i' = 1
    /\ var_parts' = <<>>
    /\ QN_var' = <<>>
    /\ Niter' = 0
    /\ q' = 0
    /\ n' = 0
    /\ rc_size' = 0
    /\ comps' = <<>>
    /\ QN_parts' = <<>>
    /\ cuts' = <<>>
    /\ exc' = "none"
    /\ calls' = <<>>
    /\ lens' = <<>>
    /\ draws' = <<>>
    /\ fired' = "no"
    /\ UNCHANGED << alarm, out >>

NextCalls ==
    \/ Next
    \/ NextCall

SpecCalls == InitCalls /\ [][NextCalls]_vars

----------------------------------------------------------------------------
\* rand_compositions on its own: every q, n and batch size within the bounds

InitSampler ==
    /\ routine = "rand_compositions"
    /\ study = "D"
    /\ sample_size = 1
    /\ t_limit = 0
    /\ analysis = "composition"
    /\ q \in 1..MaxQ
    /\ n \in 0..MaxN
    /\ rc_size \in 1..MaxBatch
    /\ pc = "rc_while"
    /\ Idle

NextSampler ==
    \/ RcIter
    \/ RcReturn

SpecSampler == InitSampler /\ [][NextSampler]_vars

----------------------------------------------------------------------------
\* get_var_for_Q_N on its own: every q and n within the bounds, the call
\* having entered time_limit(t_limit) and reached the head of its loop

InitCollector ==
    /\ routine = "get_var_for_Q_N"
    /\ study = "D"
    /\ sample_size \in SampleSizes
    /\ t_limit \in TLimits
    /\ analysis \in Analyses
    /\ q \in 1..MaxQ
    /\ n \in 0..MaxN
    /\ rc_size = 0
    /\ pc = "for_Niter"
    /\ ncalls = 1
    /\ data_study = <<>>
    /\ i = 1
    /\ var_parts = <<>>
    /\ QN_var = <<>>
    /\ Niter = 0
    /\ comps = <<>>
    /\ QN_parts = <<>>
    /\ cuts = <<>>
    /\ alarm = Armed(t_limit)
    /\ exc = "none"
    /\ out = [f \in Files |-> <<>>]
    /\ calls = <<>>
    /\ lens = <<>>
    /\ draws = <<>>
    /\ fired = "no"

NextCollector ==
    \/ Draw
    \/ RcIter
    \/ RcReturn
    \/ AppendVar
    \/ Return
    \/ Timeout

SpecCollector == InitCollector /\ [][NextCollector]_vars

\* The single thread of control keeps running: some step is always taken
\* while one is possible.
SpecCollectorFair == SpecCollector /\ WF_vars(NextCollector)

----------------------------------------------------------------------------
\* Properties

\* What the call has written to its own output file.
Written == out[FileName(routine, analysis)]

\* Every record of data_study got a collector call that returned a list of
\* length sample_size.
AllFull ==
    /\ Len(lens) = Len(data_study)
    /\ \A k \in DOMAIN lens : lens[k] = sample_size

Distinct(s) == \A a, b \in DOMAIN s : a # b => s[a] # s[b]

HasZero(s) == \E k \in DOMAIN s : s[k] = 0

\* C1: all-or-nothing emission.  Nothing is written before the routine ends
\* or when it is left by an exception; when it ends, its file holds one row
\* per record of data_study (row k carrying Q and N of record k) if every
\* record produced a list of length sample_size, and no row at all otherwise.
\* No other file is touched.
C1_AllOrNothing ==
    /\ \A f \in Files : f # FileName(routine, analysis) => out[f] = <<>>
    /\ pc # "done" => Written = <<>>
    /\ pc = "done" =>
          IF AllFull
          THEN /\ Len(Written) = Len(data_study)
               /\ \A k \in DOMAIN Written :
                     /\ Written[k][2] = data_study[k][2]
                     /\ Written[k][3] = data_study[k][3]
          ELSE Written = <<>>

\* A study whose first combo was complete and whose second was truncated
\* has ended with nothing written.
C1_Witness ==
    /\ pc = "done"
    /\ Len(lens) = 2
    /\ lens[1] = sample_size
    /\ lens[2] < sample_size
    /\ var_parts # <<>>
    /\ Written = <<>>

\* C2: ordering and short-circuit.  The collector is called for records
\* 1, 2, 3, ... of data_study in that order, with the record's Q and N, a new
\* call only after the previous one returned, and the call whose result is
\* shorter than sample_size is the last one: if call k is truncated exactly
\* k calls are made.
C2_OrderedShortCircuit ==
    /\ calls = [k \in 1..Len(calls) |-> k]
    /\ Len(calls) <= Len(data_study)
    /\ Len(lens) <= Len(calls)
    /\ Len(calls) <= Len(lens) + 1
    /\ calls # <<>> =>
          /\ q = data_study[Len(calls)][2]
          /\ n = data_study[Len(calls)][3]
    /\ \A k \in DOMAIN lens : lens[k] < sample_size => Len(calls) = k

\* A study of 3 combos whose 2nd combo was truncated has ended after 2 calls.
C2_Witness ==
    /\ pc = "done"
    /\ Len(data_study) = 3
    /\ calls = <<1, 2>>
    /\ lens[1] = sample_size
    /\ lens[2] < sample_size

\* C3: with a time limit of 0 a collector call on a valid (Q, N) returns a
\* list of length 0.
C3_ZeroLimitReturnsEmpty ==
    (t_limit = 0 /\ pc = "check" /\ q >= n /\ n >= 1) => Len(QN_var) = 0

\* C4 as stated: when the timeout fires during a collector call, the call
\* returns normally and the list returned is strictly shorter than
\* sample_size.
C4_TimeoutStrictlyShorter ==
    fired # "no" =>
        /\ exc = "none"
        /\ pc # "raised"
        /\ Len(QN_var) < sample_size

\* C4 amended: when the timeout fires during a collector call, the call
\* returns normally with the variances collected so far, at most sample_size
\* of them; the list has the full length sample_size exactly when the alarm
\* fired after the last variance was appended (at the loop head with the
\* range exhausted, before the alarm is disarmed), and is strictly shorter
\* otherwise.
C4_TimeoutReturnsCollected ==
    fired # "no" =>
        /\ exc = "none"
        /\ pc # "raised"
        /\ lens # <<>> /\ lens[Len(lens)] = Len(QN_var)
        /\ Len(QN_var) = Len(draws)
        /\ \A k \in DOMAIN QN_var : QN_var[k] = var(draws[k])
        /\ Len(QN_var) <= sample_size
        /\ Len(QN_var) = sample_size <=>
              (fired = "for_Niter" /\ Niter = sample_size)

\* The timeout fired in the middle of a draw, after one variance of two
\* had been collected, and the call returned that one variance.
C4_Witness ==
    /\ pc = "check"
    /\ fired = "rc_while"
    /\ sample_size = 2
    /\ Len(QN_var) = 1

\* C5: the alarm is armed only while control is inside the with-block of a
\* get_var_for_Q_N call: after a normal return, after a timeout and after
\* any other exception it is disarmed.
C5_AlarmOnlyInCollector == alarm => InCollector

\* A collector call armed with a positive limit was left by a ValueError
\* and the alarm is disarmed.
C5_Witness ==
    /\ pc = "raised"
    /\ exc = "ValueError"
    /\ t_limit > 0
    /\ fired = "no"
    /\ ~alarm

\* C6: the list being collected never exceeds sample_size, and a collector
\* call that returns without the timer having fired returns exactly
\* sample_size variances, variance k being that of the k-th draw.
C6_FullWithoutTimeout ==
    /\ Len(QN_var) <= sample_size
    /\ (pc = "check" /\ fired = "no") =>
          /\ Len(QN_var) = sample_size
          /\ Len(draws) = sample_size
          /\ \A k \in 1..sample_size : QN_var[k] = var(draws[k])

\* An armed call of sample size 2 returned both variances untimed.
C6_Witness ==
    /\ pc = "check"
    /\ fired = "no"
    /\ t_limit > 0
    /\ sample_size = 2
    /\ Len(QN_var) = 2

\* C7: for q >= n >= 1 and every choice of cut points, every composition
\* rand_compositions holds or returns has exactly n parts, each >= 0, summing
\* to q, and the consistency test never ends the run.
C7_CompositionShape ==
    (q >= n /\ n >= 1) =>
        /\ exc # "SystemExit"
        /\ \A c \in AsSet(comps) \cup AsSet(QN_parts) :
              /\ Len(c) = n
              /\ Sum(c) = q
              /\ \A k \in DOMAIN c : c[k] >= 0

\* A batch of two different compositions of a valid (q, n), one of them with
\* a zero part, was returned.
C7_Witness ==
    /\ routine = "rand_compositions"
    /\ pc = "rc_done"
    /\ q >= n
    /\ n >= 2
    /\ Len(QN_parts) = 2
    /\ HasZero(QN_parts[1])

\* C8 as stated: the cut points a composition is built from are pairwise
\* distinct.
C8_CutsDistinct == comps # <<>> => Distinct(cuts)

\* C8 amended: the n - 1 cut points a composition is built from are values
\* of 0..q-1 that need not be distinct; a draw with a repeated value is kept
\* and gives a composition with a zero part (a part is zero exactly when a
\* cut point repeats or is 0).
C8_CutsMayRepeat ==
    comps # <<>> =>
        /\ Len(cuts) = n - 1
        /\ \A k \in DOMAIN cuts : cuts[k] \in 0..(q - 1)
        /\ HasZero(comps[Len(comps)]) <=>
              (~Distinct(cuts) \/ \E k \in DOMAIN cuts : cuts[k] = 0)

\* A draw with a repeated, nonzero cut point was turned into a returned
\* composition.
C8_Witness ==
    /\ pc = "rc_done"
    /\ Len(cuts) = 2
    /\ cuts[1] = cuts[2]
    /\ cuts[1] > 0
    /\ Descending(RandomComposition_weak(q, n, cuts)) \in AsSet(QN_parts)

\* C9 as stated: for a (Q, N) with Q < N or N < 1 no variance is ever
\* appended.
C9_InvalidNeverAppends ==
    (calls # <<>> /\ InvalidCombination(q, n)) => QN_var = <<>>

\* C9 amended: in composition mode a collector call with N < 1 appends no
\* variance, its first sampler call failing with a ValueError; a call with
\* 1 <= Q < N is not rejected: every draw has N parts summing to Q and its
\* variance is appended.
C9_OnlyNBelowOneRejected ==
    (analysis = "composition" /\ calls # <<>>) =>
        /\ n < 1 =>
              /\ QN_var = <<>>
              /\ draws = <<>>
              /\ (Niter >= 1 /\ fired = "no" /\ pc # "rc_while") =>
                    /\ pc = "raised"
                    /\ exc = "ValueError"
        /\ (1 <= q /\ q < n) =>
              /\ exc = "none"
              /\ Len(QN_var) = Len(draws)
              /\ \A k \in DOMAIN draws :
                    /\ Len(draws[k]) = n
                    /\ Sum(draws[k]) = q
                    /\ QN_var[k] = var(draws[k])

\* A composition-mode call with Q < N returned a full sample.
C9_Witness ==
    /\ analysis = "composition"
    /\ pc = "check"
    /\ 1 <= q
    /\ q < n
    /\ fired = "no"
    /\ Len(QN_var) = sample_size

\* C10 as stated: a full-length composition-mode result is built from
\* pairwise distinct compositions.
C10_DrawsDistinct ==
    (analysis = "composition" /\ pc = "check" /\ Len(QN_var) = sample_size)
        => Distinct(draws)

\* C10 amended: in composition mode every variance comes from a batch of its
\* own, requested with size 1 and holding exactly one composition, so
\* duplicates are removed only inside a batch of one: a full-length result is
\* built from sample_size draws of which between 1 and sample_size are
\* distinct.
C10_OneDrawPerBatch ==
    (analysis = "composition" /\ calls # <<>>) =>
        /\ Niter >= 1 => rc_size = 1
        /\ Len(comps) <= 1
        /\ pc = "append" => Len(QN_parts) = 1
        /\ (pc = "check" /\ Len(QN_var) = sample_size) =>
              /\ Len(draws) = sample_size
              /\ Cardinality(AsSet(draws)) \in 1..sample_size

\* A full-length result of two draws that are the same composition.
C10_Witness ==
    /\ analysis = "composition"
    /\ pc = "check"
    /\ sample_size = 2
    /\ Len(QN_var) = 2
    /\ draws[1] = draws[2]

\* C11: deduplication is a pure set filter.  The batch rand_compositions
\* returns holds every composition drawn (in descending form) exactly once
\* and nothing else, the loop having made exactly sample_size draws; its
\* length is between 1 and sample_size and is smaller than sample_size
\* exactly when two draws were equal.
C11_DedupIsSetFilter ==
    (routine = "rand_compositions" /\ pc = "rc_done") =>
        /\ Len(comps) = rc_size
        /\ AsSet(QN_parts) = AsSet(comps)
        /\ Distinct(QN_parts)
        /\ Len(QN_parts) \in 1..rc_size
        /\ Len(QN_parts) < rc_size <=> ~Distinct(comps)

\* Three draws, the first two equal and the third different, returned
\* exactly 2 entries.
C11_Witness ==
    /\ routine = "rand_compositions"
    /\ pc = "rc_done"
    /\ Len(comps) = 3
    /\ comps[1] = comps[2]
    /\ comps[3] # comps[1]
    /\ Len(QN_parts) = 2

AllEqual(s) == \A a, b \in DOMAIN s : s[a] = s[b]

\* A variance that is exactly 0: numerator 0 over a nonzero denominator.
IsZero(v) == v[1] = 0 /\ v[2] # 0

\* 0 / 0, which numpy returns as nan.
IsNan(v) == v[1] = 0 /\ v[2] = 0

\* C12 as stated: for q >= n >= 1 with n dividing q, the variance appended
\* for the draw of n equal parts is exactly 0.
C12_EqualPartsVarZero ==
    (q >= n /\ n >= 1) =>
        \A k \in DOMAIN QN_var :
            (Len(draws[k]) = n /\ AllEqual(draws[k])) => IsZero(QN_var[k])

\* C12 amended: for q >= n >= 2 with n dividing q, the variance appended
\* for the draw of n equal parts is exactly 0; for n = 1 the single part has
\* squared deviation 0 divided by n - 1 = 0, which is nan and not 0.
C12_EqualPartsVarZeroFromTwo ==
    (q >= n /\ n >= 1) =>
        \A k \in DOMAIN QN_var :
            (Len(draws[k]) = n /\ AllEqual(draws[k])) =>
                /\ n >= 2 => IsZero(QN_var[k])
                /\ n = 1 => IsNan(QN_var[k])

\* In composition mode the draw of 2 equal parts of q = 4 got variance 0.
C12_Witness ==
    /\ routine = "get_var_for_Q_N"
    /\ analysis = "composition"
    /\ q = 4
    /\ n = 2
    /\ QN_var # <<>>
    /\ draws[1] = <<2, 2>>
    /\ IsZero(QN_var[1])

\* Positions of the table rows of the study, and those among them with N > 2.
StudyRows == {k \in DOMAIN Data : Data[k][1] = study}
StudyRowsAbove2 == {k \in StudyRows : Data[k][3] > 2}

\* C13: TL_analysis iterates over exactly the study's combos with N > 2: it
\* never samples a combo with N <= 2 and its completeness test counts the
\* N > 2 combos only, so it writes one row per N > 2 combo when these are all
\* full.  sample_var iterates over every combo of the study whatever its N,
\* and when the study completes it writes one row per combo, the N <= 2
\* combos included.
C13_SmallNOnlyInSampleVar ==
    pc # "start" =>
        /\ routine = "TL_analysis" =>
              /\ Len(data_study) = Cardinality(StudyRowsAbove2)
              /\ \A k \in DOMAIN data_study : data_study[k][3] > 2
              /\ calls # <<>> => n > 2
              /\ (pc = "done" /\ AllFull) =>
                    /\ Len(Written) = Cardinality(StudyRowsAbove2)
                    /\ \A k \in DOMAIN Written : Written[k][3] > 2
        /\ routine = "sample_var" =>
              /\ Len(data_study) = Cardinality(StudyRows)
              /\ \A k \in DOMAIN data_study :
                    \E j \in StudyRows : data_study[k] = Data[j]
              /\ (pc = "done" /\ AllFull) =>
                    /\ Len(Written) = Cardinality(StudyRows)
                    /\ \A j \in StudyRows :
                          \E k \in DOMAIN Written :
                              SubSeq(Written[k], 1, 5) = Data[j]

\* TL_analysis has completed study "A", which has three combos, one of them
\* with N = 2, after two collector calls and has written two rows.
C13_Witness ==
    /\ routine = "TL_analysis"
    /\ study = "A"
    /\ pc = "done"
    /\ Cardinality(StudyRows) = 3
    /\ calls = <<1, 2>>
    /\ Len(Written) = 2

IsPrefix(s, t) == Len(s) <= Len(t) /\ SubSeq(t, 1, Len(s)) = s

\* C14: the variance output is append-only over a run of sample_var calls.
\* In every step each file keeps its rows as a prefix; a file changes only in
\* the step that ends a call, only the file of that call's analysis changes,
\* and the rows added are one per combo of the call's study, in combo order,
\* each made of the combo's 5 input fields followed by exactly sample_size
\* variance fields (a call that adds nothing leaves every file as it was).
C14_AppendOnly ==
    [][ /\ \A f \in Files : IsPrefix(out[f], out'[f])
        /\ out' # out =>
              LET f == FileName("sample_var", analysis)
                  added == SubSeq(out'[f], Len(out[f]) + 1, Len(out'[f]))
              IN  /\ pc # "done"
                  /\ pc' = "done"
                  /\ \A g \in Files : g # f => out'[g] = out[g]
                  /\ Len(added) = Len(data_study)
                  /\ \A k \in DOMAIN added :
                        /\ Len(added[k]) = 5 + sample_size
                        /\ SubSeq(added[k], 1, 5) = data_study[k]
                        /\ added[k] = var_parts[k]
      ]_vars

\* A second call, of sample size 2, has added its two rows after the two
\* rows a first call of sample size 1 had written to the same file.
C14_Witness ==
    /\ ncalls = 2
    /\ pc = "done"
    /\ sample_size = 2
    /\ Len(Written) = 4
    /\ Len(Written[2]) = 6
    /\ Len(Written[3]) = 7
    /\ SubSeq(Written[3], 1, 5) = data_study[1]

\* C15: a get_var_for_Q_N call with q >= n >= 1 eventually returns; it
\* returns either with the range of sample_size iterations exhausted or by
\* the timeout; and each rand_compositions call it makes leaves its
\* while-loop after exactly as many draws as it was asked for, every draw
\* being accepted.
C15_CollectorReturns ==
    /\ (q >= n /\ n >= 1) => <>(pc = "check")
    /\ [](pc = "check" => (fired # "no" \/ Niter = sample_size))
    /\ [](pc = "rc_while" => Len(comps) <= rc_size)
    /\ []((pc = "append" /\ analysis = "composition") =>
            /\ Len(comps) = rc_size
            /\ comps[Len(comps)] = Descending(RandomComposition_weak(q, n, cuts)))

\* A composition-mode call with no time limit has returned after its three
\* parts were drawn twice, the last draw from a repeated cut point.
C15_Witness ==
    /\ routine = "get_var_for_Q_N"
    /\ analysis = "composition"
    /\ t_limit = 0
    /\ pc = "check"
    /\ q >= n
    /\ n = 3
    /\ sample_size = 2
    /\ Niter = 2
    /\ cuts[1] = cuts[2]

====
